---- MODULE Spec2Model ----
(***************************************************************************)
(* The two stochastic simulators of the repository (Gillespie direct       *)
(* method): the hard-coded two-compartment loop of                         *)
(* Atelier-Probabilistic-Pharmacokinetics-Fundamentals and the             *)
(* five-compartment loop of ...-Vital-Organ-Model.                         *)
(*                                                                         *)
(* Numbers.  Counts, doses and rate constants are integers.  A time is a   *)
(* binary floating-point number scaled down: a multiple of one quantum     *)
(* (1/LnScale of a time unit) that keeps MantBits significant bits, or one *)
(* of PosInf, NegInf, NaN.  Every time-valued operation rounds to nearest, *)
(* ties to even, as IEEE-754 does for the doubles of the source.  A        *)
(* uniform draw is k/DrawDen with k in 0..DrawDen-1, the scaled-down form  *)
(* of numpy's k/2^53.                                                      *)
(***************************************************************************)
EXTENDS Integers, Sequences, FiniteSets

\* ------------------------------------------------------------- bounds
MantBits == 2          \* significant bits kept by a time value
MaxDose == 2           \* doses are drawn from -1..MaxDose
MaxRate == 2           \* k1 and k2 are drawn from -1..MaxRate
MaxHorizon == 5        \* the largest horizon t_max, in quanta
MaxEvents == 4         \* the events of one run that are explored

\* --------------------------------------------------- floating point
PosInf == 2^20
NegInf == -PosInf
NaN == PosInf + 1

IsFinite(x) == NegInf < x /\ x < PosInf

Abs(x) == IF x < 0 THEN -x ELSE x

Sign(x) == IF x < 0 THEN -1 ELSE 1

RECURSIVE Pow2(_)
Pow2(k) == IF k = 0 THEN 1 ELSE 2 * Pow2(k - 1)

\* The integers below Radix are all representable.
Radix == Pow2(MantBits)

\* The spacing of the representable values around p/d (p >= 0, d > 0):
\* the least power of two s with p/d < Radix * s.
RECURSIVE Spacing(_, _, _)
Spacing(p, d, s) == IF p < Radix * s * d THEN s ELSE Spacing(p, d, 2 * s)

\* p/d (p >= 0, d > 0) rounded to the nearest representable value, ties to
\* the even significand.
RoundDiv(p, d) ==
  LET s == Spacing(p, d, 1)
      q == p \div (d * s)
      r == p % (d * s)
  IN  IF 2 * r < d * s THEN q * s
      ELSE IF 2 * r > d * s THEN (q + 1) * s
      ELSE IF q % 2 = 0 THEN q * s ELSE (q + 1) * s

\* An exact integer rounded to a representable value.
Fl(x) == IF Abs(x) < Radix THEN x ELSE Sign(x) * RoundDiv(Abs(x), 1)

\* x < y on floats: false as soon as one side is NaN.
FLt(x, y) == x # NaN /\ y # NaN /\ x < y

FGe(x, y) == x # NaN /\ y # NaN /\ x >= y

\* x + y on floats.
FAdd(x, y) ==
  IF x = NaN \/ y = NaN THEN NaN
  ELSE IF x = PosInf THEN (IF y = NegInf THEN NaN ELSE PosInf)
  ELSE IF x = NegInf THEN (IF y = PosInf THEN NaN ELSE NegInf)
  ELSE IF ~IsFinite(y) THEN y
  ELSE Fl(x + y)

\* x / a on floats, for an integer a # 0 (the loop has left when a0 = 0).
FDivInt(x, a) ==
  IF x = NaN THEN NaN
  ELSE IF x = PosInf THEN (IF a > 0 THEN PosInf ELSE NegInf)
  ELSE IF x = NegInf THEN (IF a > 0 THEN NegInf ELSE PosInf)
  ELSE Sign(x) * Sign(a) * RoundDiv(Abs(x), Abs(a))

\* x * y on finite floats.
FMul(x, y) == Fl(x * y)

\* ----------------------------------------------------- random draws
\* np.random.random() returns k/DrawDen, 0 <= k < DrawDen.
DrawDen == Pow2(2)

\* Quanta in one time unit.
LnScale == Pow2(4)

\* The numerators k of the draws r1 and r2 explored.
R1Values == {0, 1, 3}

R2Values == {0, 3}

\* np.log(k/DrawDen) in quanta: round(LnScale * ln(k/4)), -inf at 0.
NpLog(k) ==
  CASE k = 0 -> NegInf
    [] k = 1 -> -22
    [] k = 2 -> -11
    [] k = 3 -> -5

FNeg(x) == IF x = NaN THEN NaN ELSE -x

\* r2 * a0 for the draw r2 = k/DrawDen, in units of 1/DrawDen: the exact
\* product k * a0 rounded to a representable value.
Threshold(r2, a0) == Fl(r2 * a0)

\* dt = -np.log(r1) / a0
WaitingTime(r1, a0) == LET log == NpLog(r1) IN FDivInt(FNeg(log), a0)

\* ------------------------------------------------ shared loop pieces
\* LoopCond with <= in place of <.
LoopCondInclusive(time, horizon) == time # NaN /\ horizon # NaN /\ time <= horizon

\* while t < t_max
LoopCond(time, horizon) == FLt(time, horizon)

\* if a0 == 0: break
NoReaction(a0) == a0 = 0

\* max(count, 0)
Clamp(count) == IF count > 0 THEN count ELSE 0

\* Record with the new entry put in front.
RecordInFront(list, value) == <<value>> \o list

\* list.append(value)
Record(list, value) == Append(list, value)

\* The runs explored: the event count is capped.
EventsLeft(ts) == Len(ts) <= MaxEvents

\* float_sum is the algorithm of the interpreter's built-in sum on floats:
\* "sequential" (CPython up to 3.11 adds from left to right) or
\* "compensated" (CPython from 3.12 carries the rounding errors along).
VARIABLES script, float_sum, D, k1, k2, rate_constants, t_max,
          n1, n2, n, t, times, n1_values, n2_values, n_history, pc, ndraws

vars == <<script, float_sum, D, k1, k2, rate_constants, t_max,
          n1, n2, n, t, times, n1_values, n2_values, n_history, pc, ndraws>>

config == <<script, float_sum, D, k1, k2, rate_constants, t_max>>

twoState == <<n1, n2, n1_values, n2_values>>

fiveState == <<n, n_history>>

\* --------------------------------------------- two-compartment model
\* a1 = k2 * n1, a2 = k1 * n2
A1(kk2, c1) == FMul(kk2, c1)

A2(kk1, c2) == FMul(kk1, c2)

\* a0 = a1 + a2
A0Two(a1, a2) == FAdd(a1, a2)

\* if r2 * a0 < a1 (both sides in units of 1/DrawDen)
HeartToLung(r2, a0, a1) == Threshold(r2, a0) < a1 * DrawDen

\* One iteration that fires an event, for the draws r1, r2.
StepTwo(r1, r2) ==
  /\ script = "two" /\ pc = "loop"
  /\ LoopCond(t, t_max)
  /\ EventsLeft(times)
  /\ \E a1 \in {A1(k2, n1)}, a2 \in {A2(k1, n2)} :
     \E a0 \in {A0Two(a1, a2)} :
       /\ ~NoReaction(a0)
       /\ \E dt \in {WaitingTime(r1, a0)} :
          \E newt \in {FAdd(t, dt)},
             m1 \in {Clamp(IF HeartToLung(r2, a0, a1) THEN n1 - 1 ELSE n1 + 1)},
             m2 \in {Clamp(IF HeartToLung(r2, a0, a1) THEN n2 + 1 ELSE n2 - 1)} :
            /\ t' = newt
            /\ n1' = m1
            /\ n2' = m2
            /\ times' = Record(times, newt)
            /\ n1_values' = Record(n1_values, m1)
            /\ n2_values' = Record(n2_values, m2)
  /\ ndraws' = ndraws + 2
  /\ UNCHANGED <<config, fiveState, pc>>

\* if a0 == 0: break, then return
BreakTwo ==
  /\ script = "two" /\ pc = "loop"
  /\ LoopCond(t, t_max)
  /\ NoReaction(A0Two(A1(k2, n1), A2(k1, n2)))
  /\ pc' = "done"
  /\ UNCHANGED <<config, twoState, fiveState, t, times, ndraws>>

\* the while condition fails, then return
ExitTwo ==
  /\ script = "two" /\ pc = "loop"
  /\ ~LoopCond(t, t_max)
  /\ pc' = "done"
  /\ UNCHANGED <<config, twoState, fiveState, t, times, ndraws>>

\* -------------------------------------------- five-compartment model
Compartments == {"Heart", "Brain", "Kidneys", "Liver", "Lungs"}

\* InitialCounts with the dose placed in the Lungs.
InitialCountsInLungs(dose) == [c \in Compartments |-> IF c = "Lungs" THEN dose ELSE 0]

\* n = {'Heart': D, 'Brain': 0, 'Kidneys': 0, 'Liver': 0, 'Lungs': 0}
InitialCounts(dose) == [c \in Compartments |-> IF c = "Heart" THEN dose ELSE 0]

\* The reaction list, in declared order; rate is the key of rate_constants.
reactions ==
  << [from |-> "Heart",   to |-> "Brain",   rate |-> "k_Heart_Brain"],
     [from |-> "Brain",   to |-> "Heart",   rate |-> "k_Brain_Heart"],
     [from |-> "Heart",   to |-> "Kidneys", rate |-> "k_Heart_Kidneys"],
     [from |-> "Kidneys", to |-> "Heart",   rate |-> "k_Kidneys_Heart"],
     [from |-> "Heart",   to |-> "Liver",   rate |-> "k_Heart_Liver"],
     [from |-> "Liver",   to |-> "Heart",   rate |-> "k_Liver_Heart"],
     [from |-> "Heart",   to |-> "Lungs",   rate |-> "k_Heart_Lungs"],
     [from |-> "Lungs",   to |-> "Heart",   rate |-> "k_Lungs_Heart"] >>

RateKeys == {reactions[i].rate : i \in 1..Len(reactions)}

\* Propensities with the rate constant left out of the product.
PropensitiesNoRate(rc, counts) ==
  [i \in 1..Len(reactions) |-> counts[reactions[i].from]]

\* Propensities with the count of the destination in place of the source's.
PropensitiesOfDestination(rc, counts) ==
  [i \in 1..Len(reactions) |-> FMul(rc[reactions[i].rate], counts[reactions[i].to])]

\* propensity = rate * n_from, one per reaction
Propensities(rc, counts) ==
  [i \in 1..Len(reactions) |-> FMul(rc[reactions[i].rate], counts[reactions[i].from])]

\* cumulative_propensity after reaction i: 0.0, then += propensities[i],
\* each addition rounded.
RECURSIVE Cumulative(_, _)
Cumulative(props, i) ==
  IF i = 0 THEN 0 ELSE FAdd(Cumulative(props, i - 1), props[i])

\* The compensated sum of props[i..], from the running sum s and the
\* running compensation c: t = s + x; c += (s - t) + x when |s| >= |x|,
\* (x - t) + s otherwise; s = t; at the end s + c when c is not 0.
RECURSIVE Compensated(_, _, _, _)
Compensated(props, i, s, c) ==
  IF i > Len(props) THEN (IF c # 0 THEN FAdd(s, c) ELSE s)
  ELSE LET x == props[i]
           tt == FAdd(s, x)
           e == IF Abs(s) >= Abs(x) THEN FAdd(FAdd(s, -tt), x)
                ELSE FAdd(FAdd(x, -tt), s)
       IN  Compensated(props, i + 1, tt, FAdd(c, e))

\* a0 = sum(propensities): 0 + propensities[0] first, then the float sum of
\* the interpreter.
Total(props) ==
  IF float_sum = "sequential" THEN Cumulative(props, Len(props))
  ELSE Compensated(props, 2, props[1], 0)

\* Exceeds with >= in place of >.
ExceedsOrEquals(cum, r2, a0) == cum * DrawDen >= Threshold(r2, a0)

\* if cumulative_propensity > threshold, threshold = r2 * a0 (both sides in
\* units of 1/DrawDen)
Exceeds(cum, r2, a0) == cum * DrawDen > Threshold(r2, a0)

\* The for loop from reaction i on, cum being cumulative_propensity so far:
\* the reaction it breaks at, 0 when it ends without a break.
RECURSIVE Scan(_, _, _, _, _)
Scan(props, i, cum, r2, a0) ==
  IF i > Len(props) THEN 0
  ELSE LET next == FAdd(cum, props[i])
       IN  IF Exceeds(next, r2, a0) THEN i ELSE Scan(props, i + 1, next, r2, a0)

\* The reaction the scan stops at: the first i whose cumulative propensity
\* exceeds the threshold; 0 when no reaction is applied.
Selected(props, r2, a0) == Scan(props, 1, 0, r2, a0)

\* Fire without the increment of the destination.
FireNoGain(counts, i) ==
  IF i = 0 THEN counts
  ELSE [counts EXCEPT ![reactions[i].from] = @ - 1]

\* n[reaction['from']] -= 1; n[reaction['to']] += 1
Fire(counts, i) ==
  IF i = 0 THEN counts
  ELSE [counts EXCEPT ![reactions[i].from] = @ - 1, ![reactions[i].to] = @ + 1]

\* for compartment in n: n[compartment] = max(n[compartment], 0)
ClampAll(counts) == [c \in Compartments |-> Clamp(counts[c])]

\* RecordAll leaving the Lungs' history as it was.
RecordAllButLungs(history, counts) ==
  [c \in Compartments |->
     IF c = "Lungs" THEN history[c] ELSE Record(history[c], counts[c])]

\* for compartment in n: n_history[compartment].append(n[compartment])
RecordAll(history, counts) ==
  [c \in Compartments |-> Record(history[c], counts[c])]

\* One iteration that fires an event, for the draws r1, r2.
StepFive(r1, r2) ==
  /\ script = "five" /\ pc = "loop"
  /\ LoopCond(t, t_max)
  /\ EventsLeft(times)
  /\ \E propensities \in {Propensities(rate_constants, n)} :
     \E a0 \in {Total(propensities)} :
       /\ ~NoReaction(a0)
       /\ \E dt \in {WaitingTime(r1, a0)} :
          \E newt \in {FAdd(t, dt)} :
            /\ t' = newt
            /\ times' = Record(times, newt)
       /\ \E i \in {Selected(propensities, r2, a0)} :
          \E newn \in {ClampAll(Fire(n, i))} :
            /\ n' = newn
            /\ n_history' = RecordAll(n_history, newn)
  /\ ndraws' = ndraws + 2
  /\ UNCHANGED <<config, twoState, pc>>

\* BreakFive recording one more snapshot before it leaves.
BreakFiveRecording ==
  /\ script = "five" /\ pc = "loop"
  /\ LoopCond(t, t_max)
  /\ NoReaction(Total(Propensities(rate_constants, n)))
  /\ pc' = "done"
  /\ times' = Append(times, t)
  /\ n_history' = [c \in Compartments |-> Append(n_history[c], n[c])]
  /\ UNCHANGED <<config, twoState, n, t, ndraws>>

\* if a0 == 0: break, then return
BreakFive ==
  /\ script = "five" /\ pc = "loop"
  /\ LoopCond(t, t_max)
  /\ NoReaction(Total(Propensities(rate_constants, n)))
  /\ pc' = "done"
  /\ UNCHANGED <<config, twoState, fiveState, t, times, ndraws>>

ExitFive ==
  /\ script = "five" /\ pc = "loop"
  /\ ~LoopCond(t, t_max)
  /\ pc' = "done"
  /\ UNCHANGED <<config, twoState, fiveState, t, times, ndraws>>

\* ------------------------------------------------------ configurations
\* The arguments a caller can pass: the functions validate nothing.
Doses == -1..MaxDose

Rates == -1..2

TwoRates == -1..MaxRate

Horizons == {0, MaxHorizon}

NoRates == [key \in RateKeys |-> 0]

\* The builds explored.
FloatSums == {"sequential", "compensated"}

\* The rate dictionaries explored: k_Heart_Brain is 1, k_Brain_Heart ranges
\* over Rates; Kidneys, Liver and Lungs share one constant for both
\* directions, 0 or 1.
SharedRates ==
  {[key \in RateKeys |->
      IF key = "k_Heart_Brain" THEN 1
      ELSE IF key = "k_Brain_Heart" THEN b ELSE k] : b \in Rates, k \in {0, 1}}

\* A dictionary in which every compartment has a positive rate out and the
\* Heart has a negative one as well.
MixedRates ==
  [key \in RateKeys |->
     IF key = "k_Heart_Kidneys" THEN -1
     ELSE IF key \in {"k_Heart_Liver", "k_Heart_Lungs"} THEN 0 ELSE 1]

RateConfigs == SharedRates \cup {MixedRates}

\* The state after lines 18-24 (two) and 6-16 (five).
Init ==
  /\ script \in {"two", "five"}
  /\ D \in Doses
  /\ t_max \in Horizons
  /\ IF script = "two"
       THEN /\ k1 \in TwoRates /\ k2 \in TwoRates /\ rate_constants = NoRates
            /\ float_sum = "sequential"
       ELSE /\ k1 = 0 /\ k2 = 0 /\ rate_constants \in RateConfigs
            /\ float_sum \in FloatSums
  /\ n1 = D
  /\ n2 = 0
  /\ n = InitialCounts(D)
  /\ t = 0
  /\ times = <<0>>
  /\ n1_values = <<D>>
  /\ n2_values = <<0>>
  /\ n_history = [c \in Compartments |-> <<InitialCounts(D)[c]>>]
  /\ pc = "loop"
  /\ ndraws = 0

Next ==
  \/ \E r1 \in R1Values, r2 \in R2Values : StepTwo(r1, r2)
  \/ BreakTwo
  \/ ExitTwo
  \/ \E r1 \in R1Values, r2 \in R2Values : StepFive(r1, r2)
  \/ BreakFive
  \/ ExitFive

Spec == Init /\ [][Next]_vars

\* Every rate constant the running script reads is >= 0.
NonNegRates ==
  IF script = "two" THEN k1 >= 0 /\ k2 >= 0
  ELSE \A key \in RateKeys : rate_constants[key] >= 0

\* ------------------------------------------- vocabulary of the claims
\* The compartments of the running script and each one's recorded history.
Names == IF script = "two" THEN {"Heart", "Lung"} ELSE Compartments

History(c) ==
  IF script = "two" THEN (IF c = "Heart" THEN n1_values ELSE n2_values)
  ELSE n_history[c]

RECURSIVE SumOver(_, _)
SumOver(S, j) ==
  IF S = {} THEN 0
  ELSE LET c == CHOOSE x \in S : TRUE IN History(c)[j] + SumOver(S \ {c}, j)

\* The total of snapshot j.
SnapshotTotal(j) == SumOver(Names, j)

\* The total propensity of the current state.
CurrentA0 ==
  IF script = "two" THEN A0Two(A1(k2, n1), A2(k1, n2))
  ELSE Total(Propensities(rate_constants, n))

\* Every rate constant of a reaction out of compartment c is 0.
NoOutflow(c) ==
  IF script = "two" THEN (IF c = "Heart" THEN k2 = 0 ELSE k1 = 0)
  ELSE \A i \in 1..Len(reactions) :
         reactions[i].from = c => rate_constants[reactions[i].rate] = 0

Returned == pc = "done"

\* -------------------------------------------------------------- claims
\* C1 (conservation): in a run started from a positive dose D with
\* non-negative rate constants, the counts of every recorded snapshot, of
\* the two-compartment and of the five-compartment model, add up to D.
Conservation ==
  (D > 0 /\ NonNegRates) =>
     \A j \in 1..Len(times) : SnapshotTotal(j) = D

\* C1 witness: a five-compartment run of a valid configuration has fired
\* two events and moved molecules out of the Heart.
ConservationWitness ==
  /\ script = "five" /\ D = 2 /\ NonNegRates
  /\ Len(times) >= 3
  /\ n["Heart"] = 0

\* C2 as stated (non-negativity): in every run, every count of every
\* recorded snapshot is >= 0.
NonNegativity ==
  \A c \in Names : \A j \in 1..Len(times) : History(c)[j] >= 0

\* C3 as stated (time monotonicity), for the runs of a positive dose with
\* non-negative rate constants: the recorded times start at 0 and each is
\* strictly greater than the one before it.
StrictlyIncreasingTimes ==
  (D > 0 /\ NonNegRates) =>
     /\ times[1] = 0
     /\ \A j \in 1..(Len(times) - 1) : FLt(times[j], times[j + 1])

\* C4 as stated (termination), the part a returned run shows: when the
\* function has returned, the total propensity is 0 or the last recorded time
\* has reached the horizon.
Termination ==
  Returned => (CurrentA0 = 0 \/ FGe(times[Len(times)], t_max))

\* C5 (zero-rate isolation): whatever the other rate constants and the
\* draws, the count of a compartment whose outgoing reactions all have rate 0
\* never decreases from one snapshot to the next.
ZeroRateIsolation ==
  \A c \in Names :
     NoOutflow(c) =>
        \A j \in 1..(Len(times) - 1) : History(c)[j + 1] >= History(c)[j]

\* C5 witness: the Brain has no outflow, received a molecule, and the run
\* went on firing other reactions.
ZeroRateIsolationWitness ==
  /\ script = "five" /\ D > 0 /\ NonNegRates
  /\ NoOutflow("Brain") /\ ~NoOutflow("Kidneys")
  /\ Len(times) >= 4
  /\ n_history["Brain"][2] = 1

\* C6 as stated: a configuration with a negative rate constant is rejected:
\* no draw is made, no snapshot is appended, nothing is returned.
NegativeRateRejected ==
  ~NonNegRates => (ndraws = 0 /\ Len(times) = 1 /\ ~Returned)

\* C7 as stated: a configuration with D <= 0 or t_max <= 0 is rejected: no
\* draw is made and no trajectory is returned.
NonPositiveInputRejected ==
  (D <= 0 \/ t_max <= 0) => (ndraws = 0 /\ ~Returned)

\* C8 (initial snapshot): the first snapshot is time 0 with the whole dose in
\* the Heart and 0 elsewhere, and it is there before any draw: the snapshots
\* number one more than the pairs of draws.
InitialSnapshot ==
  /\ times[1] = 0
  /\ \A c \in Names : History(c)[1] = (IF c = "Heart" THEN D ELSE 0)
  /\ 2 * Len(times) = 2 + ndraws

\* C8 witness: the run has moved on from the initial state.
InitialSnapshotWitness ==
  /\ script = "five" /\ D > 0
  /\ Len(times) >= 3
  /\ n["Heart"] # D

\* C9 (zero propensity): an iteration that starts with a0 = 0 returns and
\* changes nothing else: no draw, no time advance, no count, no snapshot.
ZeroPropensityFrame ==
  [][(pc = "loop" /\ LoopCond(t, t_max) /\ CurrentA0 = 0) =>
        /\ pc' = "done"
        /\ UNCHANGED <<t, times, n1, n2, n, n1_values, n2_values, n_history, ndraws>>]_vars

\* C9 witness: a run returned before the horizon, after events, with a0 = 0.
ZeroPropensityWitness ==
  /\ Returned
  /\ CurrentA0 = 0
  /\ LoopCond(t, t_max)
  /\ Len(times) >= 2

\* C10 as stated: the waiting time is finite for every draw, so every
\* recorded time of a valid run is finite.
AllTimesFinite ==
  (D > 0 /\ NonNegRates /\ t_max > 0) =>
     \A j \in 1..Len(times) : IsFinite(times[j])

\* C11 (append-only): a step leaves every recorded snapshot as it was, its
\* time and every count, and an iteration that draws appends exactly one
\* snapshot at the end.
AppendOnly ==
  [][/\ \A j \in 1..Len(times) :
          /\ j <= Len(times')
          /\ times'[j] = times[j]
          /\ \A c \in Names :
                j <= Len(History(c)') /\ History(c)'[j] = History(c)[j]
     /\ Len(times') = Len(times) + (IF ndraws' # ndraws THEN 1 ELSE 0)
     /\ \A c \in Names :
          Len(History(c)') = Len(History(c)) + (IF ndraws' # ndraws THEN 1 ELSE 0)]_vars

\* C11 witness: three snapshots with different times and different counts
\* are on record.
AppendOnlyWitness ==
  /\ Len(times) >= 3
  /\ times[1] # times[2] /\ times[2] # times[3]
  /\ History("Heart")[1] # History("Heart")[2]
  /\ History("Heart")[2] # History("Heart")[3]

\* The first reaction, in declared order, whose cumulative propensity
\* exceeds r2 * a0; 0 when there is none.
FirstExceeding(props, r2, a0) ==
  LET hits == {i \in 1..Len(props) : Exceeds(Cumulative(props, i), r2, a0)}
  IN  IF hits = {} THEN 0 ELSE CHOOSE i \in hits : \A j \in hits : i <= j

\* The two reactions of the two-compartment script in the order it tests
\* them: Heart to Lung (a1), Lung to Heart (a2).
TwoPropensities == <<A1(k2, n1), A2(k1, n2)>>

\* C12 as stated (reaction selection): in an iteration that starts with
\* a0 > 0, for every draw r2, a first reaction whose cumulative propensity
\* exceeds r2 * a0 exists and it is the one reaction applied.
ReactionSelection ==
  [][\A r1 \in R1Values, r2 \in R2Values :
       /\ (StepFive(r1, r2) /\ CurrentA0 > 0) =>
             LET i == FirstExceeding(Propensities(rate_constants, n), r2, CurrentA0)
             IN  i # 0 /\ n' = ClampAll(Fire(n, i))
       /\ (StepTwo(r1, r2) /\ CurrentA0 > 0) =>
             LET i == FirstExceeding(TwoPropensities, r2, CurrentA0)
             IN  /\ i # 0
                 /\ i = 1 => (n1' = Clamp(n1 - 1) /\ n2' = Clamp(n2 + 1))
                 /\ i = 2 => (n1' = Clamp(n1 + 1) /\ n2' = Clamp(n2 - 1))]_vars

\* C13 (the clamp is unreachable): with non-negative rate constants and a
\* dose >= 0, the source of every selected reaction holds at least one
\* molecule before the decrement, and the counts after the clamp are the
\* counts before it.
ClampUnreachable ==
  [][(D >= 0 /\ NonNegRates) =>
       \A r1 \in R1Values, r2 \in R2Values :
         /\ StepFive(r1, r2) =>
               LET i == Selected(Propensities(rate_constants, n), r2, CurrentA0)
               IN  /\ i # 0 => n[reactions[i].from] > 0
                   /\ n' = Fire(n, i)
         /\ StepTwo(r1, r2) =>
               IF HeartToLung(r2, CurrentA0, A1(k2, n1))
                 THEN n1 > 0 /\ n1' = n1 - 1 /\ n2' = n2 + 1
                 ELSE n2 > 0 /\ n1' = n1 + 1 /\ n2' = n2 - 1]_vars

\* C13 witness: a valid two-compartment run moved its only molecule to the
\* Lung and back, so each event was selected with one compartment empty.
ClampUnreachableWitness ==
  /\ script = "two" /\ D = 1 /\ NonNegRates
  /\ Len(times) >= 3
  /\ n1_values[2] = 0 /\ n1_values[3] = 1

\* The (source, destination) pairs of the running script's reactions.
Moves ==
  IF script = "two" THEN {<<"Heart", "Lung">>, <<"Lung", "Heart">>}
  ELSE {<<reactions[i].from, reactions[i].to>> : i \in 1..Len(reactions)}

\* C14 as stated (one molecule per event), for the runs of a positive dose
\* with non-negative rate constants: every snapshot after the first is the
\* one before it with the source of one reaction one lower, its destination
\* one higher and every other count unchanged.
OneMoleculePerEvent ==
  (D > 0 /\ NonNegRates) =>
     \A j \in 1..(Len(times) - 1) :
        \E m \in Moves :
           \A c \in Names :
              History(c)[j + 1] = History(c)[j] + (IF c = m[2] THEN 1 ELSE 0)
                                               - (IF c = m[1] THEN 1 ELSE 0)

\* C15 (horizon check): every recorded time but the last is strictly below
\* the horizon, so no event follows a snapshot at or past it; and the last
\* snapshot is the current time and state, so the event that crossed the
\* horizon was applied and recorded.
HorizonCheck ==
  /\ \A j \in 1..(Len(times) - 1) : FLt(times[j], t_max)
  /\ times[Len(times)] = t
  /\ \A c \in Names :
        History(c)[Len(times)] = (IF script = "five" THEN n[c]
                                  ELSE IF c = "Heart" THEN n1 ELSE n2)

\* C15 witness: a run returned after an event moved a molecule and took the
\* time from below the horizon to a finite time at or past it.
HorizonCheckWitness ==
  /\ Returned
  /\ Len(times) >= 3
  /\ IsFinite(t) /\ FGe(t, t_max)
  /\ History("Heart")[Len(times)] # History("Heart")[Len(times) - 1]

\* The counts of the most recently recorded snapshot.
LastSnapshot == [c \in Names |-> History(c)[Len(times)]]

\* rate[i] * count(source of reaction i) on the last snapshot, one entry per
\* reaction in declared order.
SnapshotPropensities ==
  IF script = "two"
    THEN <<FMul(k2, LastSnapshot["Heart"]), FMul(k1, LastSnapshot["Lung"])>>
    ELSE [i \in 1..Len(reactions) |->
            FMul(rate_constants[reactions[i].rate], LastSnapshot[reactions[i].from])]

\* C16 (propensities from the current state): the time advance and the
\* event of every iteration are the ones that follow from
\* SnapshotPropensities and their sum a0, and an iteration that only computes
\* the propensities (a0 = 0) changes neither the state nor the trajectory.
PropensitiesFromCurrentState ==
  [][/\ \A r1 \in R1Values, r2 \in R2Values :
          /\ StepFive(r1, r2) =>
                LET a0 == Total(SnapshotPropensities)
                IN  /\ t' = FAdd(t, WaitingTime(r1, a0))
                    /\ n' = ClampAll(Fire(LastSnapshot,
                                          Selected(SnapshotPropensities, r2, a0)))
          /\ StepTwo(r1, r2) =>
                LET a1 == SnapshotPropensities[1]
                    a0 == FAdd(a1, SnapshotPropensities[2])
                    d == IF Threshold(r2, a0) < a1 * DrawDen THEN 1 ELSE -1
                IN  /\ t' = FAdd(t, WaitingTime(r1, a0))
                    /\ n1' = Clamp(LastSnapshot["Heart"] - d)
                    /\ n2' = Clamp(LastSnapshot["Lung"] + d)
     /\ (BreakTwo \/ BreakFive) =>
          UNCHANGED <<n1, n2, n, t, times, n1_values, n2_values, n_history>>]_vars

\* C16 witness: a five-compartment run fired a third event after the counts
\* had changed twice, so a stale count would differ from the current one.
PropensitiesFromCurrentStateWitness ==
  /\ script = "five"
  /\ Len(times) >= 4
  /\ n_history["Heart"][1] # n_history["Heart"][2]
  /\ n_history["Heart"][2] # n_history["Heart"][3]
  /\ n_history["Heart"][3] # n_history["Heart"][4]

\* The two-compartment run as an input of the five-compartment stepper: the
\* reaction list reduced to Heart -> Brain at k2 and Brain -> Heart at k1,
\* every other rate 0, and the counts n1, n2 in Heart and Brain.
InstanceRates ==
  [NoRates EXCEPT !["k_Heart_Brain"] = k2, !["k_Brain_Heart"] = k1]

InstanceCounts == [InitialCounts(n1) EXCEPT !["Brain"] = n2]

InstancePropensities == Propensities(InstanceRates, InstanceCounts)

\* a0 of the stepper on that input, under either float sum.
InstanceTotals ==
  {Cumulative(InstancePropensities, Len(InstancePropensities)),
   Compensated(InstancePropensities, 2, InstancePropensities[1], 0)}

\* C17 as stated (the two-compartment script is an instance of the
\* generalized stepper): from the same state and for the same draws, an
\* iteration of the two-compartment script records the time and the counts
\* the five-compartment stepper records on the instance, and it stops on
\* a0 = 0 exactly when the stepper does.
TwoCompartmentIsInstance ==
  [][script = "two" =>
       \A a0 \in InstanceTotals :
         /\ \A r1 \in R1Values, r2 \in R2Values :
              StepTwo(r1, r2) =>
                LET newn == ClampAll(Fire(InstanceCounts,
                                          Selected(InstancePropensities, r2, a0)))
                IN  /\ ~NoReaction(a0)
                    /\ t' = FAdd(t, WaitingTime(r1, a0))
                    /\ n1' = newn["Heart"]
                    /\ n2' = newn["Brain"]
         /\ BreakTwo => NoReaction(a0)]_vars


\* Every compartment has an outgoing reaction with a rate > 0.
PositiveOutflow ==
  IF script = "two" THEN k1 > 0 /\ k2 > 0
  ELSE \A c \in Compartments :
         \E i \in 1..Len(reactions) :
            reactions[i].from = c /\ rate_constants[reactions[i].rate] > 0

\* C19 as stated: with a positive dose and a positive rate out of every
\* compartment, the total propensity is > 0 in every reachable state, and a
\* run that has returned did so with its last recorded time at or past the
\* horizon.
NeverStarved ==
  (D > 0 /\ PositiveOutflow) =>
     /\ CurrentA0 > 0
     /\ Returned => FGe(times[Len(times)], t_max)

\* C20 (aligned records): in every reachable state, returned or not, the
\* list of times and each compartment's list of counts have one length, which
\* is 1 plus the number of events (iterations that drew r1 and r2).
AlignedRecords ==
  /\ \A c \in Names : Len(History(c)) = Len(times)
  /\ Len(times) = 1 + (ndraws \div 2)
  /\ ndraws % 2 = 0

\* C20 witness: a five-compartment run that has returned after two events.
AlignedRecordsWitness ==
  /\ script = "five" /\ Returned
  /\ ndraws = 4
  /\ Len(n_history["Lungs"]) = 3
====
